---- MODULE Spec2Model ----
(***************************************************************************)
(* Model of src/meeting_assistant.py: the LangGraph pipeline               *)
(* asr -> minutes_taker -> summarizer -> writer -> END, the poll loop      *)
(* wait_download inside asr_node, and main(), which drives the compiled    *)
(* graph twice (app.stream, then app.invoke) from the same initial state.  *)
(* Text is modelled as a sequence of tokens; "" is the empty sequence.     *)
(***************************************************************************)
EXTENDS Integers, Sequences, FiniteSets, TLC

\* ---------------------------------------------------------------- bounds
\* max_tries of wait_download (300 in the source), scaled down
MaxTries == 3

\* ------------------------------------------------------- environment sets
Empty == <<>>
\* bodies the ASR result endpoints may answer with
PollBodies == {Empty, <<"p">>, <<"q">>}
\* texts the LLM chain may return
GenTexts == {Empty, <<"g">>, <<"h">>}
\* values of time.strftime at the moment writer_node runs
Clock == {<<"t1">>, <<"t2">>}
\* job identifiers the ASR service may assign
TaskIds == {"j1", "j2"}
\* answers of requests.get: an HTTP response, or a raised exception
PollResponses ==
    [kind : {"http"}, status : {200}, text : PollBodies]
    \cup [kind : {"http"}, status : {404}, text : {Empty}]
    \cup [kind : {"ReadTimeout", "Exception"}, status : {0}, text : {Empty}]
\* outcomes of requests.post + raise_for_status + json()["id"]
UploadOutcomes == {"ok", "transport_error", "bad_status"}

Types == {"TXT", "SRT"}
Fields == {"audio_path", "txt_content", "srt_content",
           "detailed_minutes", "summary", "final_report"}

\* ------------------------------------------------------- program constants
AUDIO_PATH == <<"audio">>
END == "END"
FAILED == "FAILED"

VARIABLES
    entry,        \* "main": run through main(); "graph": the compiled graph invoked directly
    audioExists,  \* whether the file at AUDIO_PATH exists
    mainpc,       \* position of the caller: "start", "stream", "invoke", "exited"
    pass,         \* number of the current graph run (0 before the first)
    pc,           \* current graph node, "idle", END or FAILED
    apc,          \* position inside asr_node: "upload", "get", "sleep", "-"
    cur,          \* file_type of the running wait_download
    i,            \* loop variable of wait_download
    task_id, txt_text, srt_text,   \* locals of asr_node
    state,        \* the MeetingState of the current graph run
    failure,      \* kind of the error that ended the run, or "none"
    executed,     \* nodes started in this graph run, in order
    completed,    \* nodes that returned in this graph run, in order
    reqs, sleeps, nonSucc,  \* per file_type: requests, sleeps, non-success answers of this run
    result,       \* per file_type: "pending", "ok" (200 seen), "exhausted"
    lastResp,     \* per file_type: the latest answer of requests.get in this run
    genCalls,     \* chain.invoke calls of this run: [node, content, out]
    writes,       \* per field: the nodes whose returned dict held it, this run
    files,        \* files written under ./out
    saved,        \* files written under ./out by asr_node in this run
    upload,       \* outcome of the task creation of this run, or "none"
    net           \* requests issued since program start: [upload, poll, gen]

vars == <<entry, audioExists, mainpc, pass, pc, apc, cur, i, task_id, txt_text,
          srt_text, state, failure, executed, completed, reqs, sleeps, nonSucc,
          result, lastResp, genCalls, writes, files, saved, upload, net>>

callerVars == <<entry, audioExists, mainpc, pass>>
pollCounters == <<reqs, sleeps, nonSucc, result, lastResp>>

\* ------------------------------------------------------------ pure pieces
\* main(): the state handed to app.stream and to app.invoke
initial_state ==
    [audio_path |-> AUDIO_PATH, txt_content |-> Empty, srt_content |-> Empty,
     detailed_minutes |-> Empty, summary |-> Empty, final_report |-> Empty]

\* build_meeting_graph: workflow.set_entry_point
EntryPoint == "asr"

\* variant of Edges: the edge out of asr bypasses minutes_taker
EdgesSkipMinutes == {<<"asr", "summarizer">>, <<"minutes_taker", "summarizer">>,
                     <<"summarizer", "writer">>, <<"writer", END>>}

\* build_meeting_graph: the four workflow.add_edge calls
Edges == {<<"asr", "minutes_taker">>, <<"minutes_taker", "summarizer">>,
          <<"summarizer", "writer">>, <<"writer", END>>}

\* the node the compiled graph runs after node n returned
NextNode(n) == CHOOSE m \in {e[2] : e \in Edges} : <<n, m>> \in Edges

\* StateGraph(MeetingState): a node's returned dict overwrites the keys it holds
Merge(st, upd) ==
    [f \in DOMAIN st |-> IF f \in DOMAIN upd THEN upd[f] ELSE st[f]]

\* main(): audio_path.exists()
PathExists(exists) == exists

\* variant of OpenSucceeds: the upload attempted without the file being opened
OpenSucceedsAlways(exists) == TRUE

\* asr_node: open(audio_path, "rb") raises FileNotFoundError before requests.post
OpenSucceeds(exists) == exists

\* variant of UploadOk: response.raise_for_status() left out
UploadOkNoStatusCheck(o) == o # "transport_error"

\* asr_node: requests.post returned, raise_for_status passed, json()["id"] read
UploadOk(o) == o = "ok"

\* variant of Swallowed: only the read timeout caught
SwallowedTimeoutOnly(kind) == kind = "ReadTimeout"

\* wait_download: except requests.exceptions.ReadTimeout / except Exception
Swallowed(kind) == kind \in {"ReadTimeout", "Exception"}

\* variant of IsReady: any status below 500 taken as ready
IsReadyLoose(status) == status < 500

\* wait_download: resp.status_code == 200
IsReady(status) == status = 200

\* variant of InRange: one iteration too many
InRangeInclusive(j, max_tries) == j <= max_tries

\* wait_download: for i in range(max_tries)
InRange(j, max_tries) == j < max_tries

\* variant of TxtMissing: the test inverted
TxtMissingInverted(t) == t # Empty

\* variant of TxtMissing: the plain-text check left out
TxtMissingDropped(t) == FALSE

\* asr_node: if not txt_text
TxtMissing(t) == t = Empty

\* asr_node: the dict it returns
AsrReturn(txt, srt) ==
    [txt_content |-> txt, srt_content |-> IF srt # Empty THEN srt ELSE Empty]

\* variant of SavedFiles: fixed file names instead of the task id
SavedFilesFixedName(task, txt, srt) ==
    {<<"result", "txt", txt>>} \cup (IF srt # Empty THEN {<<"result", "srt", srt>>} ELSE {})

\* asr_node step 3: the files written under ./out
SavedFiles(task, txt, srt) ==
    {<<task, "txt", txt>>} \cup (IF srt # Empty THEN {<<task, "srt", srt>>} ELSE {})

\* variant of ContentToProcess: no fallback to the plain text
ContentSrtOnly(srt_content, txt_content) == srt_content

\* variant of ContentToProcess: the plain text preferred over the timed text
ContentTxtFirst(srt_content, txt_content) ==
    IF txt_content # Empty THEN txt_content ELSE srt_content

\* minutes_taker_node: srt_content if srt_content else txt_content
ContentToProcess(srt_content, txt_content) ==
    IF srt_content # Empty THEN srt_content ELSE txt_content

\* variant of MinutesReturn: the result stored under the summary key
MinutesReturnWrongKey(res) == [summary |-> res]

\* minutes_taker_node: the dict it returns
MinutesReturn(res) == [detailed_minutes |-> res]

\* variant of SummaryContent: the timed text handed to the summarizer
SummaryContentTimed(st) == st.srt_content

\* summarizer_node: the content handed to chain.invoke
SummaryContent(st) == st.txt_content

\* summarizer_node: the dict it returns
SummaryReturn(res) == [summary |-> res]

\* variant of FinalReport: the summary block left out of the report
FinalReportNoSummary(summary, detailed_minutes, ts) ==
    <<"title", "---">> \o <<"---">> \o detailed_minutes \o <<"---", "footer">> \o ts

\* writer_node: the f-string of the report
FinalReport(summary, detailed_minutes, ts) ==
    <<"title", "---">> \o summary \o <<"---">> \o detailed_minutes
        \o <<"---", "footer">> \o ts

\* writer_node: the dict it returns
WriterReturn(report) == [final_report |-> report]

Zero == [t \in Types |-> 0]
NoResp == [t \in Types |-> [kind |-> "none", status |-> 0, text |-> Empty]]

\* ------------------------------------------------------------------- Init
Init ==
    /\ entry \in {"main", "graph"}
    /\ audioExists \in BOOLEAN
    /\ mainpc = "start"
    /\ pass = 0
    /\ pc = "idle"
    /\ apc = "-"
    /\ cur = "TXT"
    /\ i = 0
    /\ task_id = "none"
    /\ txt_text = Empty
    /\ srt_text = Empty
    /\ state = initial_state
    /\ failure = "none"
    /\ executed = <<>>
    /\ completed = <<>>
    /\ reqs = Zero
    /\ sleeps = Zero
    /\ nonSucc = Zero
    /\ result = [t \in Types |-> "pending"]
    /\ lastResp = NoResp
    /\ genCalls = <<>>
    /\ writes = [f \in Fields |-> <<>>]
    /\ files = {}
    /\ saved = {}
    /\ upload = "none"
    /\ net = [upload |-> 0, poll |-> 0, gen |-> 0]

\* ------------------------------------------------------- graph machinery
\* app.stream(initial_state) / app.invoke(initial_state): a fresh graph run
StartRun(p) ==
    /\ pass' = p
    /\ pc' = EntryPoint
    /\ apc' = "upload"
    /\ cur' = "TXT"
    /\ i' = 0
    /\ task_id' = "none"
    /\ txt_text' = Empty
    /\ srt_text' = Empty
    /\ state' = initial_state
    /\ executed' = <<>>
    /\ completed' = <<>>
    /\ reqs' = Zero
    /\ sleeps' = Zero
    /\ nonSucc' = Zero
    /\ result' = [t \in Types |-> "pending"]
    /\ lastResp' = NoResp
    /\ genCalls' = <<>>
    /\ writes' = [f \in Fields |-> <<>>]
    /\ saved' = {}
    /\ upload' = "none"
    /\ UNCHANGED <<entry, audioExists, failure, files, net>>

\* a node returned upd: merge it and follow the node's edge
Apply(node, upd) ==
    /\ state' = Merge(state, upd)
    /\ writes' = [f \in Fields |->
                    IF f \in DOMAIN upd THEN Append(writes[f], node) ELSE writes[f]]
    /\ completed' = Append(completed, node)
    /\ pc' = NextNode(node)

\* a node raised: the exception leaves the graph run
Fail(kind) ==
    /\ pc' = FAILED
    /\ failure' = kind

\* ------------------------------------------------------------------ main
\* main(): the existence check, then app.stream(initial_state)
MainCheck ==
    /\ mainpc = "start"
    /\ entry = "main"
    /\ IF PathExists(audioExists)
       THEN /\ mainpc' = "stream"
            /\ StartRun(1)
       ELSE /\ mainpc' = "exited"
            /\ failure' = "AudioUnavailable"
            /\ UNCHANGED <<entry, audioExists, pass, pc, apc, cur, i, task_id, upload,
                           txt_text, srt_text, state, executed, completed,
                           reqs, sleeps, nonSucc, result, lastResp, genCalls, writes,
                           files, saved, net>>

\* the compiled graph invoked by a caller other than main()
DirectInvoke ==
    /\ mainpc = "start"
    /\ entry = "graph"
    /\ mainpc' = "direct"
    /\ StartRun(1)

\* main(): the stream loop ended, app.invoke(initial_state) runs the graph again
MainInvoke ==
    /\ mainpc = "stream"
    /\ pc = END
    /\ mainpc' = "invoke"
    /\ StartRun(2)

\* main(): final_state.get("final_report"), report_path.write_text
MainSave ==
    /\ mainpc = "invoke"
    /\ pc = END
    /\ mainpc' = "exited"
    /\ files' = files \cup {<<"meeting_report", "md", state.final_report>>}
    /\ UNCHANGED <<entry, audioExists, pass, pc, apc, cur, i, task_id, upload, saved, txt_text,
                   srt_text, state, failure, executed, completed, reqs, sleeps,
                   nonSucc, result, lastResp, genCalls, writes, net>>

\* a direct caller receives the final state
DirectReturn ==
    /\ mainpc = "direct"
    /\ pc = END
    /\ mainpc' = "exited"
    /\ UNCHANGED <<entry, audioExists, pass, pc, apc, cur, i, task_id, upload, txt_text,
                   srt_text, state, failure, executed, completed, reqs, sleeps,
                   nonSucc, result, lastResp, genCalls, writes, files, saved, net>>

\* an exception raised by a node propagates out of stream/invoke and of main()
CallerRaise ==
    /\ mainpc \in {"stream", "invoke", "direct"}
    /\ pc = FAILED
    /\ mainpc' = "exited"
    /\ UNCHANGED <<entry, audioExists, pass, pc, apc, cur, i, task_id, upload, txt_text,
                   srt_text, state, failure, executed, completed, reqs, sleeps,
                   nonSucc, result, lastResp, genCalls, writes, files, saved, net>>

\* --------------------------------------------------------------- asr_node
\* asr_node step 1: open the audio file and create the ASR task
AsrUpload ==
    /\ pc = "asr"
    /\ apc = "upload"
    /\ executed' = Append(executed, "asr")
    /\ IF ~OpenSucceeds(audioExists)
       THEN /\ Fail("AudioUnavailable")
            /\ apc' = "-"
            /\ UNCHANGED <<task_id, upload, net>>
       ELSE \E o \in UploadOutcomes, id \in TaskIds :
              /\ net' = [net EXCEPT !.upload = @ + 1]
              /\ upload' = o
              /\ IF UploadOk(o)
                 THEN /\ task_id' = id
                      /\ apc' = "get"
                      /\ UNCHANGED <<pc, failure>>
                 ELSE /\ Fail("UploadFailure")
                      /\ apc' = "-"
                      /\ UNCHANGED <<task_id>>
    /\ UNCHANGED <<callerVars, cur, i, txt_text, srt_text, state, completed,
                   pollCounters, genCalls, writes, files, saved>>

\* asr_node after wait_download(t) returned r: the plain-text check, the second
\* wait_download call, step 3 (files) and the returned dict
WaitReturns(t, r) ==
    IF t = "TXT"
    THEN /\ txt_text' = r
         /\ IF TxtMissing(r)
            THEN /\ Fail("TranscriptionTimeout")
                 /\ apc' = "-"
                 /\ UNCHANGED <<cur, i>>
            ELSE /\ apc' = "get"
                 /\ cur' = "SRT"
                 /\ i' = 0
                 /\ UNCHANGED <<pc, failure>>
         /\ UNCHANGED <<srt_text, state, completed, writes, files, saved>>
    ELSE /\ srt_text' = r
         /\ files' = files \cup SavedFiles(task_id, txt_text, r)
         /\ saved' = saved \cup SavedFiles(task_id, txt_text, r)
         /\ Apply("asr", AsrReturn(txt_text, r))
         /\ apc' = "-"
         /\ UNCHANGED <<cur, i, txt_text, failure>>

\* wait_download: one requests.get of the loop body
PollRequest ==
    /\ pc = "asr"
    /\ apc = "get"
    /\ \E resp \in PollResponses :
         /\ reqs' = [reqs EXCEPT ![cur] = @ + 1]
         /\ net' = [net EXCEPT !.poll = @ + 1]
         /\ lastResp' = [lastResp EXCEPT ![cur] = resp]
         /\ nonSucc' = [nonSucc EXCEPT ![cur] =
                          IF resp.kind = "http" /\ resp.status = 200 THEN @ ELSE @ + 1]
         /\ IF resp.kind = "http" /\ IsReady(resp.status)
            THEN /\ result' = [result EXCEPT ![cur] = "ok"]
                 /\ WaitReturns(cur, resp.text)
            ELSE IF resp.kind = "http" \/ Swallowed(resp.kind)
            THEN /\ apc' = "sleep"
                 /\ UNCHANGED <<result, pc, cur, i, txt_text, srt_text, state,
                                failure, completed, writes, files, saved>>
            ELSE /\ Fail("PollError")
                 /\ apc' = "-"
                 /\ UNCHANGED <<result, cur, i, txt_text, srt_text, state,
                                completed, writes, files, saved>>
    /\ UNCHANGED <<callerVars, task_id, upload, executed, sleeps, genCalls>>

\* wait_download: time.sleep(2), then the next iteration or the end of the loop
\* (max_tries is 300 at both call sites, so the first iteration always runs)
PollSleep ==
    /\ pc = "asr"
    /\ apc = "sleep"
    /\ sleeps' = [sleeps EXCEPT ![cur] = @ + 1]
    /\ IF InRange(i + 1, MaxTries)
       THEN /\ i' = i + 1
            /\ apc' = "get"
            /\ UNCHANGED <<result, pc, cur, txt_text, srt_text, state, failure,
                           completed, writes, files, saved>>
       ELSE /\ result' = [result EXCEPT ![cur] = "exhausted"]
            /\ WaitReturns(cur, Empty)
    /\ UNCHANGED <<callerVars, task_id, upload, executed, reqs, nonSucc, lastResp, genCalls, net>>

\* ------------------------------------------------------ generation nodes
\* variant of Generate: the error of chain.invoke caught, the graph goes on
GenerateSwallow(node, content, ok, out, upd) ==
    /\ executed' = Append(executed, node)
    /\ net' = [net EXCEPT !.gen = @ + 1]
    /\ genCalls' = Append(genCalls,
                      [node |-> node, content |-> content, ok |-> ok,
                       out |-> IF ok THEN out ELSE Empty])
    /\ IF ok
       THEN Apply(node, upd)
       ELSE /\ completed' = Append(completed, node)
            /\ pc' = NextNode(node)
            /\ UNCHANGED <<state, writes>>
    /\ UNCHANGED <<callerVars, apc, cur, i, task_id, upload, txt_text, srt_text,
                   failure, pollCounters, files, saved>>

\* chain.invoke({"content": content}) in node: it returns out, or raises
Generate(node, content, ok, out, upd) ==
    /\ executed' = Append(executed, node)
    /\ net' = [net EXCEPT !.gen = @ + 1]
    /\ genCalls' = Append(genCalls,
                      [node |-> node, content |-> content, ok |-> ok,
                       out |-> IF ok THEN out ELSE Empty])
    /\ IF ok
       THEN /\ Apply(node, upd)
            /\ UNCHANGED failure
       ELSE /\ Fail("GenerationFailure")
            /\ UNCHANGED <<state, writes, completed>>
    /\ UNCHANGED <<callerVars, apc, cur, i, task_id, upload, txt_text, srt_text,
                   pollCounters, files, saved>>

\* minutes_taker_node
MinutesTaker ==
    /\ pc = "minutes_taker"
    /\ \E ok \in BOOLEAN, out \in GenTexts :
         Generate("minutes_taker",
                  ContentToProcess(state.srt_content, state.txt_content),
                  ok, out, MinutesReturn(out))

\* summarizer_node
Summarizer ==
    /\ pc = "summarizer"
    /\ \E ok \in BOOLEAN, out \in GenTexts :
         Generate("summarizer", SummaryContent(state), ok, out, SummaryReturn(out))

\* writer_node
Writer ==
    /\ pc = "writer"
    /\ executed' = Append(executed, "writer")
    /\ \E ts \in Clock :
         Apply("writer",
               WriterReturn(FinalReport(state.summary, state.detailed_minutes, ts)))
    /\ UNCHANGED <<callerVars, apc, cur, i, task_id, upload, txt_text, srt_text, failure,
                   pollCounters, genCalls, files, saved, net>>

\* ------------------------------------------------------- specifications
Next ==
    \/ MainCheck
    \/ DirectInvoke
    \/ MainInvoke
    \/ MainSave
    \/ DirectReturn
    \/ CallerRaise
    \/ AsrUpload
    \/ PollRequest
    \/ PollSleep
    \/ MinutesTaker
    \/ Summarizer
    \/ Writer

Spec == Init /\ [][Next]_vars

\* the program is sequential: whenever a step is enabled the interpreter takes one
FairSpec == Spec /\ WF_vars(Next)

TypeOK ==
    /\ pc \in {"idle", "asr", "minutes_taker", "summarizer", "writer", END, FAILED}
    /\ mainpc \in {"start", "stream", "invoke", "direct", "exited"}
    /\ pass \in 0..2
    /\ i \in 0..MaxTries
    /\ DOMAIN state = Fields

\* ------------------------------------------------------------ properties
Order == <<"asr", "minutes_taker", "summarizer", "writer">>

IsPrefix(s, t) ==
    /\ Len(s) <= Len(t)
    /\ \A k \in 1..Len(s) : s[k] = t[k]

Calls(node) == {k \in 1..Len(genCalls) : genCalls[k].node = node}

PlainOk == result["TXT"] = "ok" /\ txt_text # Empty

\* C1: in every graph run the nodes start in the order asr, minutes_taker,
\* summarizer, writer, each at most once and only after its predecessor
\* returned; the run is at END exactly when writer returned; a run in which a
\* node raised is at FAILED, stays there, and starts no further node.
C1_StageOrder ==
    /\ [](/\ IsPrefix(executed, Order)
          /\ IsPrefix(completed, executed)
          /\ Len(executed) <= Len(completed) + 1
          /\ (pc = END <=> completed = Order)
          /\ (pc = FAILED => Len(executed) = Len(completed) + 1)
          /\ (pc = FAILED <=> (pass > 0 /\ failure # "none")))
    /\ [][pc = FAILED =>
            /\ pc' = FAILED
            /\ executed' = executed
            /\ completed' = completed]_vars

C1_Witness == pc = END /\ executed = Order /\ pass = 2

\* C2 as stated: a finished run whose plain-text poll returned a non-empty
\* result is at END with a non-empty final_report.
C2_Original ==
    (pc \in {END, FAILED} /\ PlainOk) =>
        (pc = END /\ state.final_report # Empty)

\* C2 amended: once the plain-text poll has returned a non-empty result the run
\* eventually is at END with a non-empty final_report, or at FAILED because a
\* generation call raised.
C2_Amended ==
    PlainOk ~> \/ pc = END /\ state.final_report # Empty
               \/ pc = FAILED /\ failure = "GenerationFailure"

C2_Witness ==
    /\ PlainOk
    /\ result["SRT"] = "exhausted"
    /\ pc = END
    /\ state.final_report # Empty

\* C3: a run whose plain-text poll exhausted its budget is at FAILED with the
\* timeout error and has made no generation call.
C3_PlainExhausted ==
    result["TXT"] = "exhausted" =>
        /\ pc = FAILED
        /\ failure = "TranscriptionTimeout"
        /\ genCalls = <<>>
        /\ executed = <<"asr">>

C3_Witness == result["TXT"] = "exhausted" /\ reqs["TXT"] = MaxTries /\ mainpc = "exited"

\* C4: in a run whose plain-text poll succeeded and whose timed-text poll
\* exhausted its budget, asr returned, srt_content is empty, the only error
\* that can still end the run is a generation failure, every minutes_taker
\* call has txt_content as content, and detailed_minutes is that call's output.
C4_TimedDegraded ==
    (result["TXT"] = "ok" /\ result["SRT"] = "exhausted") =>
        /\ Len(completed) >= 1
        /\ completed[1] = "asr"
        /\ state.srt_content = Empty
        /\ state.txt_content = txt_text
        /\ txt_text # Empty
        /\ (pc = FAILED => failure = "GenerationFailure")
        /\ \A k \in Calls("minutes_taker") : genCalls[k].content = state.txt_content
        /\ (Len(completed) >= 2 =>
              \E k \in Calls("minutes_taker") :
                 /\ genCalls[k].ok
                 /\ genCalls[k].content = state.txt_content
                 /\ state.detailed_minutes = genCalls[k].out)

C4_Witness ==
    /\ result["TXT"] = "ok"
    /\ result["SRT"] = "exhausted"
    /\ Len(completed) >= 2
    /\ state.detailed_minutes # Empty

\* C5: when wait_download returned on a success answer, it had made exactly
\* one request more than the non-success answers it got (fewer than max_tries)
\* and slept once per non-success answer, it returned the body of that answer,
\* and afterwards the run makes no further request or sleep for that file_type;
\* a success answer always ends the loop.
C5_RetryCount ==
    /\ [](\A t \in Types :
            /\ (result[t] = "ok" =>
                  /\ nonSucc[t] < MaxTries
                  /\ reqs[t] = nonSucc[t] + 1
                  /\ sleeps[t] = nonSucc[t]
                  /\ lastResp[t].kind = "http"
                  /\ lastResp[t].status = 200
                  /\ (t = "TXT" => txt_text = lastResp[t].text)
                  /\ (t = "SRT" => srt_text = lastResp[t].text))
            /\ ((lastResp[t].kind = "http" /\ lastResp[t].status = 200)
                  => result[t] = "ok"))
    /\ [][\A t \in Types :
            (result[t] = "ok" /\ pass' = pass) =>
                /\ reqs'[t] = reqs[t]
                /\ sleeps'[t] = sleeps[t]
                /\ result'[t] = "ok"]_vars

C5_Witness ==
    /\ result["TXT"] = "ok"
    /\ nonSucc["TXT"] = 2
    /\ reqs["TXT"] = 3
    /\ sleeps["TXT"] = 2
    /\ txt_text = <<"p">>

\* C6: wait_download never makes more than max_tries requests; when none of
\* max_tries requests got a success answer it has made exactly max_tries
\* requests and returns the empty text; on the plain-text call the run then is
\* at FAILED with the timeout error, on the timed-text call asr returns.
C6_Exhaustion ==
    \A t \in Types :
        /\ reqs[t] <= MaxTries
        /\ (nonSucc[t] >= MaxTries =>
              \/ result[t] = "exhausted"
              \/ (result[t] = "pending" /\ cur = t /\ apc = "sleep"))
        /\ (result[t] = "exhausted" =>
              /\ reqs[t] = MaxTries
              /\ nonSucc[t] = MaxTries
              /\ sleeps[t] = MaxTries
              /\ (t = "TXT" => /\ txt_text = Empty
                               /\ pc = FAILED
                               /\ failure = "TranscriptionTimeout")
              /\ (t = "SRT" => /\ srt_text = Empty
                               /\ Len(completed) >= 1
                               /\ failure \in {"none", "GenerationFailure"}))

C6_Witness ==
    /\ result["TXT"] = "exhausted"
    /\ pc = FAILED
    /\ failure = "TranscriptionTimeout"
    /\ lastResp["TXT"].kind = "http"

\* C7: minutes_taker makes at most one generator call per run, and its content
\* is srt_content when srt_content is non-empty and txt_content otherwise.
C7_MinutesContent ==
    /\ Cardinality(Calls("minutes_taker")) <= 1
    /\ \A k \in Calls("minutes_taker") :
          /\ (state.srt_content # Empty => genCalls[k].content = state.srt_content)
          /\ (state.srt_content = Empty => genCalls[k].content = state.txt_content)

C7_Witness ==
    /\ Calls("minutes_taker") # {}
    /\ state.srt_content = <<"q">>
    /\ state.txt_content = <<"p">>

C7_FallbackWitness ==
    /\ Calls("minutes_taker") # {}
    /\ state.srt_content = Empty
    /\ state.txt_content = <<"p">>

\* C8: when the audio file does not exist no upload, poll or generation
\* request is ever issued, no node returns, and a run that has ended has
\* ended with the audio error.
C8_NoAudio ==
    ~audioExists =>
        /\ net = [upload |-> 0, poll |-> 0, gen |-> 0]
        /\ completed = <<>>
        /\ pc \in {"idle", "asr", FAILED}
        /\ failure \in {"none", "AudioUnavailable"}
        /\ ((pc = FAILED \/ mainpc = "exited") => failure = "AudioUnavailable")

C8_Witness == ~audioExists /\ pc = FAILED /\ failure = "AudioUnavailable"

C8_MainWitness == ~audioExists /\ entry = "main" /\ mainpc = "exited"

Owner(f) ==
    CASE f \in {"txt_content", "srt_content"} -> "asr"
      [] f = "detailed_minutes" -> "minutes_taker"
      [] f = "summary" -> "summarizer"
      [] f = "final_report" -> "writer"
      [] OTHER -> "nobody"

\* C9: in a graph run every field is written at most once and only by its
\* own node (asr: txt_content, srt_content; minutes_taker: detailed_minutes;
\* summarizer: summary; writer: final_report), a node that returned has
\* written its fields, an unwritten field still has its initial value, a
\* written field keeps its value for the rest of the run, and audio_path is
\* never written.
C9_SingleWriter ==
    /\ [](\A f \in Fields :
            /\ Len(writes[f]) <= 1
            /\ \A k \in 1..Len(writes[f]) : writes[f][k] = Owner(f)
            /\ (writes[f] = <<>> => state[f] = initial_state[f])
            /\ ((\E k \in 1..Len(completed) : completed[k] = Owner(f))
                  => writes[f] = <<Owner(f)>>)
            /\ (f = "audio_path" => writes[f] = <<>> /\ state[f] = AUDIO_PATH))
    /\ [][\A f \in Fields :
            (writes[f] # <<>> /\ pass' = pass) => state'[f] = state[f]]_vars

C9_Witness ==
    /\ pc = END
    /\ \A f \in Fields \ {"audio_path"} : Len(writes[f]) = 1
    /\ state.srt_content # Empty

\* C10: a run at END has a final_report made of the title, the output of this
\* run's summarizer call, the output of this run's minutes_taker call and the
\* footer; a run that ended otherwise has an error kind and an empty
\* final_report; the report file is only written from a run at END.
C10_AllOrNothing ==
    /\ (pc = END =>
          \E a \in Calls("summarizer"), b \in Calls("minutes_taker"), ts \in Clock :
             /\ genCalls[a].ok
             /\ genCalls[b].ok
             /\ state.summary = genCalls[a].out
             /\ state.detailed_minutes = genCalls[b].out
             /\ state.final_report =
                   <<"title", "---">> \o genCalls[a].out \o <<"---">>
                      \o genCalls[b].out \o <<"---", "footer">> \o ts)
    /\ (pc = FAILED =>
          /\ failure \in {"AudioUnavailable", "UploadFailure",
                          "TranscriptionTimeout", "GenerationFailure"}
          /\ state.final_report = Empty)
    /\ (mainpc = "exited" =>
          \/ pc = END /\ failure = "none"
          \/ pc = FAILED
          \/ pc = "idle" /\ failure = "AudioUnavailable" /\ state.final_report = Empty)
    /\ (pc \notin {END} => state.final_report = Empty)
    /\ \A file \in files :
          file[1] = "meeting_report" =>
              pc = END /\ file[3] = state.final_report /\ file[3] # Empty

C10_Witness ==
    /\ pc = END
    /\ mainpc = "exited"
    /\ state.summary = <<"g">>
    /\ state.detailed_minutes = <<"h">>

C10_FailedWitness ==
    /\ pc = FAILED
    /\ failure = "GenerationFailure"
    /\ state.detailed_minutes # Empty

IsTransportError(r) == r.kind \in {"ReadTimeout", "Exception"}

\* C11: a request of the poll loop that raised (read timeout or any other
\* exception) counts as one attempt and is followed by the sleep of the same
\* iteration; it never ends the run by itself; wait_download then is still
\* looping or has returned the empty text after max_tries requests.
C11_TransportErrors ==
    /\ [](\A t \in Types :
            IsTransportError(lastResp[t]) =>
                /\ result[t] \in {"pending", "exhausted"}
                /\ (result[t] = "pending" =>
                      /\ pc = "asr"
                      /\ cur = t
                      /\ apc \in {"sleep", "get"}
                      /\ failure = "none")
                /\ (result[t] = "exhausted" =>
                      /\ reqs[t] = MaxTries
                      /\ (t = "TXT" => txt_text = Empty /\ failure = "TranscriptionTimeout")
                      /\ (t = "SRT" => /\ srt_text = Empty
                                       /\ failure \in {"none", "GenerationFailure"})))
    /\ [][\A t \in Types :
            (reqs'[t] = reqs[t] + 1 /\ IsTransportError(lastResp'[t])) =>
                /\ pc' = "asr"
                /\ failure' = failure
                /\ apc' = "sleep"
                /\ i' = i
                /\ nonSucc'[t] = nonSucc[t] + 1
                /\ result'[t] = "pending"]_vars

C11_Witness ==
    /\ lastResp["SRT"].kind = "Exception"
    /\ lastResp["TXT"].kind = "http"
    /\ nonSucc["TXT"] = 1
    /\ result["SRT"] = "exhausted"
    /\ pc = END

\* C12: every generator call of summarizer has txt_content as its content,
\* whatever srt_content is, and there is at most one such call per run.
C12_SummaryContent ==
    /\ Cardinality(Calls("summarizer")) <= 1
    /\ \A k \in Calls("summarizer") :
          /\ genCalls[k].content = state.txt_content
          /\ genCalls[k].content = txt_text
          /\ genCalls[k].content # Empty

C12_Witness ==
    /\ Calls("summarizer") # {}
    /\ state.srt_content = <<"q">>
    /\ state.txt_content = <<"p">>

\* C13: when the task creation raised or returned a non-success status, the
\* run is at FAILED with the upload error, asr is the only node started, no
\* poll request and no generation call was made in the run, and no request of
\* any kind follows.
C13_UploadFailure ==
    /\ [](upload \in {"transport_error", "bad_status"} =>
            /\ pc = FAILED
            /\ failure = "UploadFailure"
            /\ executed = <<"asr">>
            /\ completed = <<>>
            /\ task_id = "none"
            /\ reqs = Zero
            /\ genCalls = <<>>)
    /\ [][(upload = "transport_error" \/ upload = "bad_status") =>
            /\ net' = net
            /\ upload' = upload]_vars

C13_Witness == upload = "bad_status" /\ mainpc = "exited" /\ net.upload = 2

\* C14: each of minutes_taker and summarizer calls the generator at most once
\* per run; a call that raised is the last call of the run, the run is at
\* FAILED with the generation error, the raising node is the last node
\* started, final_report is empty, and after a raise in minutes_taker the
\* summarizer makes no call.
C14_NoRetry ==
    /\ Cardinality(Calls("minutes_taker")) <= 1
    /\ Cardinality(Calls("summarizer")) <= 1
    /\ Len(genCalls) <= 2
    /\ \A k \in 1..Len(genCalls) :
          ~genCalls[k].ok =>
              /\ k = Len(genCalls)
              /\ pc = FAILED
              /\ failure = "GenerationFailure"
              /\ executed[Len(executed)] = genCalls[k].node
              /\ state.final_report = Empty
              /\ (genCalls[k].node = "minutes_taker" =>
                    /\ Calls("summarizer") = {}
                    /\ state.detailed_minutes = Empty
                    /\ state.summary = Empty)

C14_Witness ==
    /\ Len(genCalls) = 1
    /\ ~genCalls[1].ok
    /\ genCalls[1].node = "minutes_taker"
    /\ mainpc = "exited"

HasFile(task, ext) == \E f \in saved : f[1] = task /\ f[2] = ext

\* C15 as stated: once asr has returned, a plain-text file and a timed-text
\* file named after the task id have been written in this run, and a run
\* whose asr node failed has written nothing.
C15_Original ==
    /\ (Len(completed) >= 1 => HasFile(task_id, "txt") /\ HasFile(task_id, "srt"))
    /\ ((pc = FAILED /\ completed = <<>>) => saved = {})

\* C15 amended: once asr has returned, the files written in this run are the
\* plain-text file named after the task id, holding txt_content, and, exactly
\* when srt_content is non-empty, the timed-text file named after the task id,
\* holding srt_content; before asr returns, and when it fails, the run has
\* written nothing.
C15_Amended ==
    /\ (Len(completed) >= 1 =>
          saved = {<<task_id, "txt", state.txt_content>>}
                    \cup (IF state.srt_content # Empty
                          THEN {<<task_id, "srt", state.srt_content>>}
                          ELSE {}))
    /\ (completed = <<>> => saved = {})
    /\ saved \subseteq files
    /\ (Len(completed) >= 1 => task_id \in TaskIds)

C15_Witness ==
    /\ Len(completed) >= 1
    /\ result["SRT"] = "exhausted"
    /\ saved = {<<task_id, "txt", <<"p">> >>}

\* C16: in every state past asr (at minutes_taker, summarizer, writer or END)
\* txt_content is non-empty; a plain-text answer with status 200 and an empty
\* body ends the run at FAILED before asr returns.
C16_PlainNonEmpty ==
    /\ (pc \in {"minutes_taker", "summarizer", "writer", END} =>
          /\ state.txt_content # Empty
          /\ result["TXT"] = "ok"
          /\ state.txt_content = lastResp["TXT"].text)
    /\ (Len(completed) >= 1 => state.txt_content # Empty)
    /\ ((lastResp["TXT"].kind = "http" /\ lastResp["TXT"].status = 200
           /\ lastResp["TXT"].text = Empty) =>
          /\ pc = FAILED
          /\ completed = <<>>
          /\ state.txt_content = Empty)

C16_Witness ==
    /\ lastResp["TXT"].kind = "http"
    /\ lastResp["TXT"].status = 200
    /\ lastResp["TXT"].text = Empty
    /\ pc = FAILED

\* C17 as stated: the run has the timeout error only after max_tries
\* plain-text requests none of which got status 200.
C17_Original ==
    failure = "TranscriptionTimeout" =>
        /\ result["TXT"] = "exhausted"
        /\ reqs["TXT"] = MaxTries
        /\ nonSucc["TXT"] = MaxTries

\* C17 amended: the run has the timeout error exactly when the plain-text
\* wait_download returned the empty text, which is after max_tries requests
\* without status 200 or after a status 200 with an empty body; a status 200
\* with a non-empty body never leads to the timeout error.
C17_Amended ==
    /\ (failure = "TranscriptionTimeout" =>
          /\ pc = FAILED
          /\ txt_text = Empty
          /\ \/ /\ result["TXT"] = "exhausted"
                /\ reqs["TXT"] = MaxTries
                /\ nonSucc["TXT"] = MaxTries
             \/ /\ result["TXT"] = "ok"
                /\ lastResp["TXT"].status = 200
                /\ lastResp["TXT"].text = Empty)
    /\ ((result["TXT"] # "pending" /\ txt_text = Empty) =>
          failure = "TranscriptionTimeout")
    /\ ((result["TXT"] = "ok" /\ lastResp["TXT"].text # Empty) =>
          failure # "TranscriptionTimeout")

C17_Witness ==
    /\ failure = "TranscriptionTimeout"
    /\ result["TXT"] = "ok"
    /\ reqs["TXT"] = 1

\* C18: one run of the program issues at most one task-creation request and
\* at most one generator call per generation node (two in all).
C18_OncePerProgram ==
    /\ net.upload <= 1
    /\ net.gen <= 2

\* C19: a timed-text request is only made after the plain-text wait_download
\* returned a non-empty text on status 200, no plain-text request follows a
\* timed-text request, and every poll request follows a successful task
\* creation whose id the run holds.
C19_PollOrder ==
    /\ []( /\ (reqs["SRT"] > 0 =>
                 /\ result["TXT"] = "ok"
                 /\ txt_text # Empty)
           /\ ((cur = "SRT" /\ pc = "asr") => result["TXT"] = "ok" /\ txt_text # Empty)
           /\ ((reqs["TXT"] > 0 \/ reqs["SRT"] > 0) =>
                 /\ upload = "ok"
                 /\ task_id \in TaskIds)
           /\ (result["TXT"] = "exhausted" => reqs["SRT"] = 0) )
    /\ [][ /\ (reqs'["SRT"] = reqs["SRT"] + 1 => result["TXT"] = "ok")
           /\ (reqs'["TXT"] = reqs["TXT"] + 1 => reqs["SRT"] = 0 /\ result["TXT"] = "pending")
         ]_vars

C19_Witness ==
    /\ reqs["TXT"] = 2
    /\ reqs["SRT"] = 2
    /\ pc = "asr"

\* C20: every graph run that started reaches END or FAILED, and in no state
\* has either poll loop made more than max_tries requests.
C20_Terminates ==
    /\ \A p \in 1..2 : (pass = p) ~> (pass = p /\ pc \in {END, FAILED})
    /\ [](\A t \in Types : reqs[t] <= MaxTries /\ sleeps[t] <= MaxTries)
    /\ [](reqs["TXT"] + reqs["SRT"] <= 2 * MaxTries)

C20_Witness ==
    /\ pc = END
    /\ reqs["TXT"] = MaxTries
    /\ result["SRT"] = "exhausted"
    /\ pass = 2

====
